---- MODULE Spec2Model ----
(***************************************************************************)
(* A model of the Chord-style overlay node of mesh-messager-core.          *)
(*                                                                         *)
(* The node is the class Node of its latest revision (the one that keeps   *)
(* a successor list and a dead flag); the interval predicate is the        *)
(* withinInterval of assembly/interval.  Identifiers are bigints; the      *)
(* JavaScript value undefined is modelled by Nil.  A bigint is falsy       *)
(* exactly when it is 0n, and undefined is falsy: Truthy models that.      *)
(*                                                                         *)
(* The transport (the Communication object) is not part of the sources:    *)
(* a request to a node that is not alive rejects, a request to a live      *)
(* node runs the handler the specification gives for that request.         *)
(***************************************************************************)
EXTENDS Integers, Sequences, FiniteSets, TLC

VARIABLES
    ring,       \* the ids of the nodes that were constructed
    alive,      \* alive[n]: the transport still reaches node n
    nodes,      \* nodes[n]: the fields of node n
    joinTask,   \* joinTask[n]: the joinNode invocation of node n
    stabTask,   \* stabTask[n]: the stabilize invocation of node n
    predTask,   \* predTask[n]: the checkPredecessor invocation of node n
    counter,    \* counter[n]: the local counter of fixFingersGenerator
    rounds,     \* rounds[n]: stabilize invocations completed since the last join
    churn,      \* what was true of the ring when a node was killed
    life        \* life[n]: lifecycleActive, the timers and the ticks of node n

vars == <<ring, alive, nodes, joinTask, stabTask, predTask, counter, rounds, churn, life>>

----------------------------------------------------------------------------
(* Program constants and bounds *)

KEY_BITS == 8

MAX_SUCCESSORS_LIST_LENGTH == 3

\* undefined
Nil == -1

\* A lookup that is still recursing after MaxHops forwards is cut off.
MaxHops == 5

\* rounds[n] saturates at MaxRounds.
MaxRounds == 2

\* The chains of one maintenance task of a node that are told apart
MaxChains == 2

IdSpace == 0 .. (2 ^ KEY_BITS - 1)

----------------------------------------------------------------------------
(* Helpers *)

Range(s) == {s[i] : i \in 1 .. Len(s)}

Max(S) == CHOOSE x \in S : \A y \in S : y <= x

Min(S) == CHOOSE x \in S : \A y \in S : x <= y

\* !x is false
Truthy(x) == x # Nil /\ x # 0

\* list.indexOf(x) followed by splice(index, 1) when index !== -1
SpliceOut(list, x) ==
    IF x \notin Range(list) THEN list
    ELSE LET i == Min({j \in 1 .. Len(list) : list[j] = x})
         IN  SubSeq(list, 1, i - 1) \o SubSeq(list, i + 1, Len(list))

----------------------------------------------------------------------------
(* assembly/interval *)

withinInterval(value, start, end, includeStart, includeEnd) ==
    /\ IF includeStart THEN value >= start ELSE value > start
    /\ IF includeEnd THEN value <= end ELSE value < end

----------------------------------------------------------------------------
(* Node: construction and the fields' setters *)

generateFingerId(id, fingerIndex) == (id + 2 ^ fingerIndex) % (2 ^ KEY_BITS)

\* fingers[i] is the finger of index i - 1
createFingerTable(id) ==
    [i \in 1 .. KEY_BITS |-> [key |-> generateFingerId(id, i - 1), nodeId |-> id]]

\* new Node(comm, id, successor): the field initialisers, then the constructor
NewNode(id, succ) ==
    [successor     |-> succ,
     predecessor   |-> Nil,
     successorList |-> <<>>,
     fingers       |-> createFingerTable(id),
     dead          |-> FALSE]

\* The comparator handed to sort by updateSuccesorsList
sortCompare(n1, n2, id) ==
    LET n1Next == n1 > id
        n2Next == n2 > id
    IN  IF (n1Next /\ n2Next) \/ (~n1Next /\ ~n2Next)
        THEN (IF n1 - n2 >= 0 THEN 1 ELSE -1)
        ELSE IF n1Next /\ ~n2Next THEN -1 ELSE 1

RECURSIVE InsertSorted(_, _, _)
InsertSorted(x, s, id) ==
    IF s = <<>> THEN <<x>>
    ELSE IF sortCompare(x, Head(s), id) < 0 THEN <<x>> \o s
    ELSE <<Head(s)>> \o InsertSorted(x, Tail(s), id)

\* Array.prototype.sort with the comparator above
RECURSIVE SortList(_, _)
SortList(s, id) ==
    IF s = <<>> THEN <<>> ELSE InsertSorted(Head(s), SortList(Tail(s), id), id)

\* Array.from(new Set(list)): the first occurrence of each value, in order
RECURSIVE Dedup(_)
Dedup(s) ==
    IF s = <<>> THEN <<>>
    ELSE LET rest == Dedup(SubSeq(s, 1, Len(s) - 1))
         IN  IF s[Len(s)] \in Range(rest) THEN rest ELSE Append(rest, s[Len(s)])

\* slice(0, n)
Slice(s, n) == SubSeq(s, 1, IF Len(s) < n THEN Len(s) ELSE n)

\* updateSuccesorsList without the slice
updateSuccesorsListUncapped(id, list, newList) == SortList(Dedup(newList \o list), id)

\* updateSuccesorsList(...newList) on a node id whose list is list
updateSuccesorsList(id, list, newList) ==
    Slice(SortList(Dedup(newList \o list), id), MAX_SUCCESSORS_LIST_LENGTH)

\* getBestSuccessor(): successorList[0] || id
getBestSuccessor(id, s) ==
    IF s.successorList # <<>> /\ Truthy(s.successorList[1])
    THEN s.successorList[1]
    ELSE id

\* set successor(succ)
SetSuccessor(id, s, succ) ==
    LET spliced == SpliceOut(s.successorList, s.successor)
    IN  [s EXCEPT
            !.successor = succ,
            !.dead = (succ = id /\ ~Truthy(s.predecessor)),
            !.successorList =
                IF succ \in Range(spliced) THEN spliced
                ELSE updateSuccesorsList(id, spliced, <<succ>>)]

\* A faulty set predecessor(pred): it also splices the old predecessor out of the
\* successor list, as set successor does with the old successor
SetPredecessorSplicing(id, s, pred) ==
    [s EXCEPT
        !.predecessor = pred,
        !.dead = (s.successor = id /\ ~Truthy(pred)),
        !.successorList = SpliceOut(@, s.predecessor)]

\* set predecessor(pred)
SetPredecessor(id, s, pred) ==
    [s EXCEPT
        !.predecessor = pred,
        !.dead = (s.successor = id /\ ~Truthy(pred))]

\* notify(id): called on node self with the candidate cand
notify(self, s, cand) ==
    IF ~Truthy(s.predecessor)
       \/ withinInterval(cand, s.predecessor, self, FALSE, FALSE)
    THEN SetPredecessor(self, s, cand)
    ELSE s

\* getClosestPrecedingNode(key): findLastIndex over the fingers
\* getClosestPrecedingNode without the interval test: the last finger, whatever
\* node it holds
getClosestPrecedingNodeUntested(id, s, key) == s.fingers[Len(s.fingers)].nodeId

getClosestPrecedingNode(id, s, key) ==
    LET hits == {i \in 1 .. Len(s.fingers) :
                    withinInterval(s.fingers[i].nodeId, id, key, FALSE, FALSE)}
    IN  IF hits = {} THEN id ELSE s.fingers[Max(hits)].nodeId

----------------------------------------------------------------------------
(* Transport: what a request does at its target *)

Reachable(t) == t \in ring /\ alive[t]

GetPredecessor(t) ==
    IF Reachable(t) THEN [ok |-> TRUE, id |-> nodes[t].predecessor]
    ELSE [ok |-> FALSE, id |-> Nil]

GetSuccessorsList(t) ==
    IF Reachable(t) THEN [ok |-> TRUE, list |-> nodes[t].successorList]
    ELSE [ok |-> FALSE, list |-> <<>>]

Ping(t) == [ok |-> Reachable(t)]

\* The nodes after Notify(t, {key}) was delivered (t is reachable)
Notified(ns, t, key) == [ns EXCEPT ![t] = notify(t, ns[t], key)]

----------------------------------------------------------------------------
(* Routing.  A lookup resolves to a record: id is the answer, path the nodes
   that ran findSuccessorForKey, rejected tells that the last request was
   rejected by the transport, cut that the recursion was cut off.  A value
   that is awaited once and used several times (the closest preceding node,
   the reply to a request) is bound as the element of a singleton set. *)

RECURSIVE findSuccessorForKey(_, _, _)

\* FindSuccessorForId at its target: the handler runs findSuccessorForKey
FindSuccessorForId(t, key, fuel) ==
    IF ~Reachable(t)
    THEN [ok |-> FALSE, id |-> Nil, path |-> <<>>, rejected |-> TRUE, cut |-> FALSE]
    ELSE IF fuel = 0
    THEN [ok |-> TRUE, id |-> Nil, path |-> <<t>>, rejected |-> FALSE, cut |-> TRUE]
    ELSE CHOOSE reply \in
             {[ok |-> TRUE, id |-> r.id, path |-> r.path,
               rejected |-> r.rejected, cut |-> r.cut] :
                  r \in {findSuccessorForKey(t, key, fuel - 1)}} : TRUE

\* requestSuccessor(targetNode, key)
requestSuccessor(targetNode, key, fuel) == FindSuccessorForId(targetNode, key, fuel)

\* A faulty findSuccessorForKey: it forwards to the closest preceding node even
\* when that node is the node itself (as the earlier revision of the method did)
findSuccessorForKeyForwardsToSelf(id, key, fuel) ==
    LET s == nodes[id]
    IN  IF withinInterval(key, id, s.successor, FALSE, TRUE)
        THEN [id |-> s.successor, path |-> <<id>>, rejected |-> FALSE, cut |-> FALSE]
        ELSE LET r == requestSuccessor(getClosestPrecedingNode(id, s, key), key, fuel)
             IN  IF ~r.ok
                 THEN [id |-> id, path |-> <<id>>, rejected |-> TRUE, cut |-> FALSE]
                 ELSE [id |-> r.id, path |-> <<id>> \o r.path,
                       rejected |-> r.rejected, cut |-> r.cut]

\* findSuccessorForKey without the try/catch around requestSuccessor: a rejected
\* request leaves the lookup without an answer
findSuccessorForKeyRethrows(id, key, fuel) ==
    LET s == nodes[id]
        here(answer) ==
            [id |-> answer, path |-> <<id>>, rejected |-> FALSE, cut |-> FALSE]
    IN  IF withinInterval(key, id, s.successor, FALSE, TRUE) THEN here(s.successor)
        ELSE LET preNodeId == getClosestPrecedingNode(id, s, key)
             IN  IF preNodeId = id THEN here(id)
                 ELSE LET r == requestSuccessor(preNodeId, key, fuel)
                      IN  IF ~r.ok
                          THEN [id |-> Nil, path |-> <<id>>,
                                rejected |-> TRUE, cut |-> FALSE]
                          ELSE [id |-> r.id, path |-> <<id>> \o r.path,
                                rejected |-> r.rejected, cut |-> r.cut]

findSuccessorForKey(id, key, fuel) ==
    LET s == nodes[id]
        here(answer) ==
            [id |-> answer, path |-> <<id>>, rejected |-> FALSE, cut |-> FALSE]
        forwarded(r) ==
            IF ~r.ok
            THEN [id |-> id, path |-> <<id>>, rejected |-> TRUE, cut |-> FALSE]
            ELSE [id |-> r.id, path |-> <<id>> \o r.path,
                  rejected |-> r.rejected, cut |-> r.cut]
    IN  IF withinInterval(key, id, s.successor, FALSE, TRUE) THEN here(s.successor)
        ELSE CHOOSE answer \in
                 {IF preNodeId = id THEN here(id)
                  ELSE CHOOSE reply \in
                           {forwarded(r) :
                               r \in {requestSuccessor(preNodeId, key, fuel)}} : TRUE
                     : preNodeId \in {getClosestPrecedingNode(id, s, key)}} : TRUE

----------------------------------------------------------------------------
(* The ring as it should be *)

LiveRing == {n \in ring : alive[n]}

\* The node responsible for key among the nodes of S
TrueSuccessor(S, key) ==
    IF \E x \in S : x >= key THEN Min({x \in S : x >= key}) ELSE Min(S)

\* The node that follows n among the nodes of S (n itself when alone)
RingSuccessor(S, n) == TrueSuccessor(S, (n + 1) % (2 ^ KEY_BITS))

RingPredecessor(S, n) == CHOOSE p \in S : RingSuccessor(S, p) = n

IdleTask == [pc |-> "idle", ok |-> TRUE, id |-> Nil, list |-> <<>>]

NewTask == [pc |-> "new", ok |-> TRUE, id |-> Nil, list |-> <<>>]

NoChurn == [killed |-> Nil, converged |-> FALSE]

\* The maintenance tasks: stabilize, fixFingers, checkPredecessor
Tasks == {"stab", "fing", "pred"}

\* lifecycleActive = false and lifecycleTimeouts = {stab: null, fing: null,
\* pred: null}. For each task, runs counts the tick closures that await their
\* invocation, timers the timeouts that are pending, and handle tells whether the
\* timeout kept in lifecycleTimeouts is pending. stopped records that
\* stopLifecycle was called.
NoLifecycle ==
    [active  |-> FALSE,
     stopped |-> FALSE,
     runs    |-> [t \in Tasks |-> 0],
     timers  |-> [t \in Tasks |-> 0],
     handle  |-> [t \in Tasks |-> "null"]]

\* Every live node points at its ring successor and is pointed at by it
SuccessorsConverged ==
    \A n \in LiveRing : nodes[n].successor = RingSuccessor(LiveRing, n)

PredecessorsConverged ==
    \A n \in LiveRing : nodes[n].predecessor = RingPredecessor(LiveRing, n)

Quiet ==
    \A n \in LiveRing :
        /\ stabTask[n].pc = "idle"
        /\ predTask[n].pc = "idle"
        /\ joinTask[n].pc # "FindSuccessorForId"

----------------------------------------------------------------------------
(* Initial states *)

\* Every node is constructed with new Node(comm, id, succ[id])
Constructed(r, succ) ==
    /\ ring = r
    /\ alive = [n \in r |-> TRUE]
    /\ nodes = [n \in r |-> NewNode(n, succ[n])]
    /\ joinTask = [n \in r |-> NewTask]
    /\ stabTask = [n \in r |-> IdleTask]
    /\ predTask = [n \in r |-> IdleTask]
    /\ counter = [n \in r |-> 0]
    /\ rounds = [n \in r |-> 0]
    /\ life = [n \in r |-> NoLifecycle]
    /\ churn = NoChurn

Rings == {{10, 40}, {0, 20, 50}}

\* The nodes that may fail in the rings above
Victims == {40, 50}

\* new Node(comm, id) for every node of one of the rings
Init == \E r \in Rings : Constructed(r, [n \in r |-> n])

----------------------------------------------------------------------------
(* joinNode *)

JoinNode(n, targetNodeId) ==
    /\ alive[n]
    /\ joinTask[n].pc = "new"
    /\ LET r == FindSuccessorForId(targetNodeId, n, MaxHops)
       IN  /\ ~r.cut
           /\ joinTask' = [joinTask EXCEPT ![n] =
                  [pc |-> "FindSuccessorForId", ok |-> r.ok, id |-> r.id, list |-> <<>>]]
    /\ UNCHANGED <<ring, alive, nodes, stabTask, predTask, counter, churn>>

\* the request settles: the successor is assigned, or joinNode throws
JoinNodeResume(n) ==
    /\ alive[n]
    /\ joinTask[n].pc = "FindSuccessorForId"
    /\ nodes' = IF joinTask[n].ok
                THEN [nodes EXCEPT ![n] = SetSuccessor(n, @, joinTask[n].id)]
                ELSE nodes
    /\ joinTask' = [joinTask EXCEPT ![n] = [@ EXCEPT !.pc = "done"]]
    /\ UNCHANGED <<ring, alive, stabTask, predTask, counter, churn>>

----------------------------------------------------------------------------
(* stabilize *)

\* the catch block
StabilizeCatch(n, s) ==
    LET spliced == [s EXCEPT !.successorList = SpliceOut(@, s.successor)]
    IN  SetSuccessor(n, spliced, getBestSuccessor(n, spliced))

\* the successor after the reply preId of GetPredecessor
StabilizeAdopt(n, s, preId) ==
    IF Truthy(preId) /\ withinInterval(preId, n, s.successor, FALSE, FALSE)
    THEN SetSuccessor(n, s, preId)
    ELSE s

\* An invocation of stabilize that failed settles: the catch block has run and
\* the promise of stabilize resolves. This one rejects instead.
StabilizeRethrows(failed) ==
    IF failed THEN [IdleTask EXCEPT !.pc = "thrown"] ELSE IdleTask

\* An invocation of stabilize settles: the try/catch lets its promise resolve
\* whether or not a request failed
StabilizeSettled(failed) == IdleTask

\* stabilize is called: it returns at once, or sends GetPredecessor
StabilizeCalled(n) ==
    IF nodes[n].successor = n
    THEN stabTask[n]
    ELSE LET r == GetPredecessor(nodes[n].successor)
         IN  [pc |-> "GetPredecessor", ok |-> r.ok, id |-> r.id, list |-> <<>>]

\* Stabilize as it would be with the fallback through the predecessor: a node
\* that is its own successor and has a predecessor sends it a request
StabilizeAsksPredecessor(n) ==
    /\ alive[n]
    /\ stabTask[n].pc = "idle"
    /\ IF nodes[n].successor = n /\ ~Truthy(nodes[n].predecessor)
       THEN UNCHANGED stabTask
       ELSE LET t == IF nodes[n].successor = n THEN nodes[n].predecessor
                     ELSE nodes[n].successor
                r == GetPredecessor(t)
            IN  stabTask' = [stabTask EXCEPT ![n] =
                    [pc |-> "GetPredecessor", ok |-> r.ok, id |-> r.id, list |-> <<>>]]
    /\ UNCHANGED <<ring, alive, nodes, joinTask, predTask, counter, churn>>

Stabilize(n) ==
    /\ alive[n]
    /\ stabTask[n].pc = "idle"
    /\ stabTask' = [stabTask EXCEPT ![n] = StabilizeCalled(n)]
    /\ UNCHANGED <<ring, alive, nodes, joinTask, predTask, counter, churn>>

StabilizeGotPredecessor(n) ==
    /\ alive[n]
    /\ stabTask[n].pc = "GetPredecessor"
    /\ IF ~stabTask[n].ok
       THEN /\ nodes' = [nodes EXCEPT ![n] = StabilizeCatch(n, @)]
            /\ stabTask' = [stabTask EXCEPT ![n] = StabilizeSettled(TRUE)]
       ELSE LET s == StabilizeAdopt(n, nodes[n], stabTask[n].id)
                adopted == [nodes EXCEPT ![n] = s]
                sent == Reachable(s.successor)
            IN  /\ nodes' = IF sent THEN Notified(adopted, s.successor, n) ELSE adopted
                /\ stabTask' = [stabTask EXCEPT ![n] =
                       [pc |-> "Notify", ok |-> sent, id |-> Nil, list |-> <<>>]]
    /\ UNCHANGED <<ring, alive, joinTask, predTask, counter, churn>>

StabilizeNotified(n) ==
    /\ alive[n]
    /\ stabTask[n].pc = "Notify"
    /\ IF ~stabTask[n].ok
       THEN /\ nodes' = [nodes EXCEPT ![n] = StabilizeCatch(n, @)]
            /\ stabTask' = [stabTask EXCEPT ![n] = StabilizeSettled(TRUE)]
       ELSE LET r == GetSuccessorsList(nodes[n].successor)
            IN  /\ stabTask' = [stabTask EXCEPT ![n] =
                       [pc |-> "GetSuccessorsList", ok |-> r.ok, id |-> Nil,
                        list |-> r.list]]
                /\ UNCHANGED nodes
    /\ UNCHANGED <<ring, alive, joinTask, predTask, counter, churn>>

StabilizeGotList(n) ==
    /\ alive[n]
    /\ stabTask[n].pc = "GetSuccessorsList"
    /\ nodes' = IF ~stabTask[n].ok
                THEN [nodes EXCEPT ![n] = StabilizeCatch(n, @)]
                ELSE [nodes EXCEPT ![n].successorList =
                         updateSuccesorsList(n, @, stabTask[n].list)]
    /\ stabTask' = [stabTask EXCEPT ![n] = StabilizeSettled(~stabTask[n].ok)]
    /\ UNCHANGED <<ring, alive, joinTask, predTask, counter, churn>>

----------------------------------------------------------------------------
(* checkPredecessor *)

\* checkPredecessor is called: it returns at once, or sends Ping
CheckPredecessorCalled(n) ==
    IF ~Truthy(nodes[n].predecessor)
    THEN predTask[n]
    ELSE [pc |-> "Ping", ok |-> Ping(nodes[n].predecessor).ok, id |-> Nil,
          list |-> <<>>]

CheckPredecessor(n) ==
    /\ alive[n]
    /\ predTask[n].pc = "idle"
    /\ predTask' = [predTask EXCEPT ![n] = CheckPredecessorCalled(n)]
    /\ UNCHANGED <<ring, alive, nodes, joinTask, stabTask, counter, churn>>

\* the Ping settles: the catch handler runs when it was rejected
CheckPredecessorSettled(n) ==
    /\ alive[n]
    /\ predTask[n].pc = "Ping"
    /\ nodes' = IF predTask[n].ok THEN nodes
                ELSE [nodes EXCEPT ![n] = SetPredecessor(n, @, Nil)]
    /\ predTask' = [predTask EXCEPT ![n] = IdleTask]
    /\ UNCHANGED <<ring, alive, joinTask, stabTask, counter, churn>>

----------------------------------------------------------------------------
(* fixFingersGenerator: one next() *)

FixFingers(n) ==
    /\ alive[n]
    /\ LET c == counter[n]
           r == findSuccessorForKey(n, n + 2 ^ c, MaxHops)
       IN  /\ ~r.cut
           /\ nodes' = [nodes EXCEPT ![n].fingers[c + 1].nodeId = r.id]
           /\ counter' = [counter EXCEPT ![n] = (c + 1) % (Len(nodes[n].fingers) - 1)]
    /\ UNCHANGED <<ring, alive, joinTask, stabTask, predTask, churn>>

----------------------------------------------------------------------------
(* The environment: a node fails *)

Kill(n) ==
    /\ n \in ring
    /\ alive[n]
    /\ LiveRing = ring
    /\ alive' = [alive EXCEPT ![n] = FALSE]
    /\ churn' = [killed |-> n,
                 converged |-> SuccessorsConverged /\ PredecessorsConverged /\ Quiet]
    /\ UNCHANGED <<ring, nodes, joinTask, stabTask, predTask, counter>>

----------------------------------------------------------------------------
(* Specifications *)

\* rounds[n] counts the stabilize invocations of n that have returned
CountRound(n) ==
    rounds' = [rounds EXCEPT ![n] =
                  IF stabTask'[n].pc = "idle" /\ @ < MaxRounds THEN @ + 1 ELSE @]

\* Nodes created alone join one another, maintain the ring, and one may fail.
Next ==
    \/ \E n \in ring : \E t \in ring \ {n} : JoinNode(n, t) /\ UNCHANGED <<rounds, life>>
    \/ \E n \in ring : JoinNodeResume(n) /\ UNCHANGED <<rounds, life>>
    \/ \E n \in ring : Stabilize(n) /\ UNCHANGED <<rounds, life>>
    \/ \E n \in ring : StabilizeGotPredecessor(n) /\ UNCHANGED <<rounds, life>>
    \/ \E n \in ring : StabilizeNotified(n) /\ UNCHANGED <<rounds, life>>
    \/ \E n \in ring : StabilizeGotList(n) /\ UNCHANGED <<rounds, life>>
    \/ \E n \in ring : CheckPredecessor(n) /\ UNCHANGED <<rounds, life>>
    \/ \E n \in ring : CheckPredecessorSettled(n) /\ UNCHANGED <<rounds, life>>
    \/ \E n \in Victims : Kill(n) /\ UNCHANGED <<rounds, life>>

Spec == Init /\ [][Next]_vars

----------------------------------------------------------------------------
(* Rings that are built in place: every node is constructed with its ring
   successor (or alone), then maintained; fix fingers runs. *)

RouteRings == {{10}, {10, 40}, {5, 60}, {5, 20, 50}}

InitRoute ==
    \E r \in RouteRings : \E preformed \in BOOLEAN :
        Constructed(r, [n \in r |-> IF preformed THEN RingSuccessor(r, n) ELSE n])

NextRoute ==
    \/ \E n \in ring : Stabilize(n) /\ UNCHANGED <<rounds, life>>
    \/ \E n \in ring : StabilizeGotPredecessor(n) /\ UNCHANGED <<rounds, life>>
    \/ \E n \in ring : StabilizeNotified(n) /\ UNCHANGED <<rounds, life>>
    \/ \E n \in ring : StabilizeGotList(n) /\ UNCHANGED <<rounds, life>>
    \/ \E n \in ring : FixFingers(n) /\ UNCHANGED <<rounds, life>>

SpecRoute == InitRoute /\ [][NextRoute]_vars

----------------------------------------------------------------------------
(* Nodes created alone that join through one bootstrap node, then maintain
   the ring; nothing fails. *)

\* The node the others join through
Bootstrap == Min(ring)

Joins(n) ==
    /\ n # Bootstrap
    /\ JoinNode(n, Bootstrap) \/ JoinNodeResume(n)

Stabilizes(n) ==
    \/ Stabilize(n)
    \/ StabilizeGotPredecessor(n)
    \/ StabilizeNotified(n)
    \/ StabilizeGotList(n)

ChecksPredecessor(n) == CheckPredecessor(n) \/ CheckPredecessorSettled(n)

\* Two nodes: the stabilize rounds that return after the join are counted
PairRings == {{10, 40}, {5, 60}}

InitPair == \E r \in PairRings : Constructed(r, [n \in r |-> n])

NextPair ==
    \/ \E n \in ring \ {Bootstrap} : JoinNode(n, Bootstrap) /\ UNCHANGED <<rounds, life>>
    \/ \E n \in ring \ {Bootstrap} : JoinNodeResume(n) /\ rounds' = [m \in ring |-> 0] /\ UNCHANGED life
    \/ \E n \in ring : Stabilize(n) /\ CountRound(n) /\ UNCHANGED life
    \/ \E n \in ring : StabilizeGotPredecessor(n) /\ CountRound(n) /\ UNCHANGED life
    \/ \E n \in ring : StabilizeNotified(n) /\ CountRound(n) /\ UNCHANGED life
    \/ \E n \in ring : StabilizeGotList(n) /\ CountRound(n) /\ UNCHANGED life
    \/ \E n \in ring : CheckPredecessor(n) /\ UNCHANGED <<rounds, life>>
    \/ \E n \in ring : CheckPredecessorSettled(n) /\ UNCHANGED <<rounds, life>>

SpecPair == InitPair /\ [][NextPair]_vars

\* Any number of nodes; every join and every lifecycle tick is eventually served
JoinRings == {{7}, {10, 40}, {5, 20, 50}}

JoinIds == UNION JoinRings

InitJoin == \E r \in JoinRings : Constructed(r, [n \in r |-> n])

NextJoin ==
    \/ \E n \in ring : Joins(n) /\ UNCHANGED <<rounds, life>>
    \/ \E n \in ring : Stabilizes(n) /\ UNCHANGED <<rounds, life>>
    \/ \E n \in ring : ChecksPredecessor(n) /\ UNCHANGED <<rounds, life>>
    \/ \E n \in ring : FixFingers(n) /\ UNCHANGED <<rounds, life>>

\* run() re-arms each tick after it settles, and every request settles
LifecycleFairness ==
    \A n \in JoinIds :
        /\ WF_vars(n \in ring /\ Stabilizes(n) /\ UNCHANGED <<rounds, life>>)
        /\ WF_vars(n \in ring /\ ChecksPredecessor(n) /\ UNCHANGED <<rounds, life>>)
        /\ WF_vars(n \in ring /\ FixFingers(n) /\ UNCHANGED <<rounds, life>>)

FairSpecJoin ==
    /\ InitJoin
    /\ [][NextJoin]_vars
    /\ LifecycleFairness
    /\ \A n \in JoinIds : WF_vars(n \in ring /\ Joins(n) /\ UNCHANGED <<rounds, life>>)

----------------------------------------------------------------------------
(* A ring that is maintained while one of its nodes fails. The ring is built in
   place: every node is constructed with the node that follows it as successor. *)

FailRings == {{5, 20, 50}}

FailIds == UNION FailRings

InitFail == \E r \in FailRings : Constructed(r, [n \in r |-> RingSuccessor(r, n)])

NextFail ==
    \/ \E n \in ring : Stabilizes(n) /\ UNCHANGED <<rounds, life>>
    \/ \E n \in ring : ChecksPredecessor(n) /\ UNCHANGED <<rounds, life>>
    \/ \E n \in ring : Kill(n) /\ UNCHANGED <<rounds, life>>

\* The lifecycle of every node keeps running; whether a node fails is not forced
FairSpecFail ==
    /\ InitFail
    /\ [][NextFail]_vars
    /\ \A n \in FailIds :
          /\ WF_vars(n \in ring /\ Stabilizes(n) /\ UNCHANGED <<rounds, life>>)
          /\ WF_vars(n \in ring /\ ChecksPredecessor(n) /\ UNCHANGED <<rounds, life>>)

----------------------------------------------------------------------------
(* The successor list of one node under every sequence of successor
   assignments, merges and failovers, with the ids the node hears of drawn
   from ListIds. *)

ListIds == {0, 5, 20, 35, 50, 60}

\* The longest reply to GetSuccessorsList that is tried
MaxReply == 3

\* The sequences over S of length n
RECURSIVE SeqsOfLen(_, _)
SeqsOfLen(S, n) ==
    IF n = 0 THEN {<<>>}
    ELSE {Append(q, x) : q \in SeqsOfLen(S, n - 1), x \in S}

Replies == UNION {SeqsOfLen(ListIds, k) : k \in 0 .. MaxReply}

InitList == \E n \in {5, 50} : Constructed({n}, [m \in {n} |-> n])

\* this.successor = succ, in joinNode or in stabilize
AssignSuccessor(n, succ) ==
    /\ nodes' = [nodes EXCEPT ![n] = SetSuccessor(n, @, succ)]
    /\ UNCHANGED <<ring, alive, joinTask, stabTask, predTask, counter, rounds, churn, life>>

\* this.updateSuccesorsList(...newSuccList) in stabilize
MergeList(n, newSuccList) ==
    /\ nodes' = [nodes EXCEPT ![n].successorList = updateSuccesorsList(n, @, newSuccList)]
    /\ UNCHANGED <<ring, alive, joinTask, stabTask, predTask, counter, rounds, churn, life>>

\* the catch block of stabilize
Failover(n) ==
    /\ nodes' = [nodes EXCEPT ![n] = StabilizeCatch(n, @)]
    /\ UNCHANGED <<ring, alive, joinTask, stabTask, predTask, counter, rounds, churn, life>>

NextList ==
    \/ \E n \in ring : \E succ \in ListIds : AssignSuccessor(n, succ)
    \/ \E n \in ring : \E newSuccList \in Replies : MergeList(n, newSuccList)
    \/ \E n \in ring : Failover(n)

SpecList == InitList /\ [][NextList]_vars

----------------------------------------------------------------------------
(* The lifecycle of a node: startLifecycle starts three chains of ticks, one
   for each maintenance task. A tick awaits one invocation of its task and then
   arms the timeout of the next tick. stopLifecycle clears the timeouts kept
   in lifecycleTimeouts. The node under test runs its tasks through the
   lifecycle only; its peer stabilizes when it likes, and may fail. *)

LifeRings == {{10, 40}}

\* The node that runs the lifecycle
Host == Min(ring)

InitLife ==
    \E r \in LifeRings : Constructed(r, [n \in r |-> RingSuccessor(r, n)])

\* The three tick closures are called: each calls its task and awaits it
TicksCalled(n) ==
    /\ \A t \in Tasks : life[n].runs[t] < MaxChains
    /\ life' = [life EXCEPT ![n] =
                   [@ EXCEPT !.active = TRUE,
                             !.runs = [t \in Tasks |-> @[t] + 1]]]
    /\ stabTask' = IF stabTask[n].pc = "idle"
                   THEN [stabTask EXCEPT ![n] = StabilizeCalled(n)]
                   ELSE stabTask
    /\ predTask' = IF predTask[n].pc = "idle"
                   THEN [predTask EXCEPT ![n] = CheckPredecessorCalled(n)]
                   ELSE predTask
    /\ UNCHANGED <<ring, alive, nodes, joinTask, counter, rounds, churn>>

\* startLifecycle without the test of lifecycleActive
StartLifecycleUnguarded(n) ==
    /\ alive[n]
    /\ TicksCalled(n)

StartLifecycle(n) ==
    /\ alive[n]
    /\ IF life[n].active
       THEN UNCHANGED vars
       ELSE TicksCalled(n)

\* A timeout that arms the next one as it fires, before the invocation settles
TimerFiresAndRearms(n, t) ==
    /\ alive[n]
    /\ life[n].timers[t] >= 1
    /\ life[n].runs[t] < MaxChains
    /\ life' = [life EXCEPT ![n] =
                   [@ EXCEPT !.runs[t] = @ + 1, !.handle[t] = "pending"]]
    /\ stabTask' = IF t = "stab" /\ stabTask[n].pc = "idle"
                   THEN [stabTask EXCEPT ![n] = StabilizeCalled(n)]
                   ELSE stabTask
    /\ predTask' = IF t = "pred" /\ predTask[n].pc = "idle"
                   THEN [predTask EXCEPT ![n] = CheckPredecessorCalled(n)]
                   ELSE predTask
    /\ UNCHANGED <<ring, alive, nodes, joinTask, counter, rounds, churn>>

\* A pending timeout of task t fires: the tick closure calls the task
TimerFires(n, t) ==
    /\ alive[n]
    /\ life[n].timers[t] >= 1
    /\ life[n].runs[t] < MaxChains
    /\ life' = [life EXCEPT ![n] =
                   [@ EXCEPT !.timers[t] = @ - 1,
                             !.runs[t] = @ + 1,
                             !.handle[t] = IF life[n].timers[t] = 1
                                           THEN "spent" ELSE @]]
    /\ stabTask' = IF t = "stab" /\ stabTask[n].pc = "idle"
                   THEN [stabTask EXCEPT ![n] = StabilizeCalled(n)]
                   ELSE stabTask
    /\ predTask' = IF t = "pred" /\ predTask[n].pc = "idle"
                   THEN [predTask EXCEPT ![n] = CheckPredecessorCalled(n)]
                   ELSE predTask
    /\ UNCHANGED <<ring, alive, nodes, joinTask, counter, rounds, churn>>

\* The awaited invocation of task t has settled: when it resolved the tick arms
\* the timeout of the next tick and keeps it in lifecycleTimeouts; when it
\* rejected the tick closure ends there
Rescheduled(l, t, thrown) ==
    IF thrown
    THEN [l EXCEPT !.runs[t] = @ - 1]
    ELSE [l EXCEPT !.runs[t] = @ - 1,
                   !.timers[t] = Min({@ + 1, MaxChains}),
                   !.handle[t] = "pending"]

TickStabilizeResolves(n) ==
    /\ alive[n]
    /\ life[n].runs["stab"] >= 1
    /\ stabTask[n].pc \in {"idle", "thrown"}
    /\ life' = [life EXCEPT ![n] =
                   Rescheduled(@, "stab", stabTask[n].pc = "thrown")]
    /\ stabTask' = [stabTask EXCEPT ![n] = IdleTask]
    /\ UNCHANGED <<ring, alive, nodes, joinTask, predTask, counter, rounds, churn>>

TickFixFingersResolves(n) ==
    /\ life[n].runs["fing"] >= 1
    /\ FixFingers(n)
    /\ life' = [life EXCEPT ![n] = Rescheduled(@, "fing", FALSE)]
    /\ UNCHANGED rounds

TickCheckPredecessorResolves(n) ==
    /\ alive[n]
    /\ life[n].runs["pred"] >= 1
    /\ predTask[n].pc = "idle"
    /\ life' = [life EXCEPT ![n] = Rescheduled(@, "pred", FALSE)]
    /\ UNCHANGED <<ring, alive, nodes, joinTask, stabTask, predTask, counter,
                   rounds, churn>>

\* stopLifecycle: clearTimeout on the three timeouts of lifecycleTimeouts
StopLifecycle(n) ==
    /\ alive[n]
    /\ life' = [life EXCEPT ![n] =
                   [@ EXCEPT !.stopped = TRUE,
                             !.timers = [t \in Tasks |->
                                 IF life[n].handle[t] = "pending"
                                 THEN @[t] - 1 ELSE @[t]],
                             !.handle = [t \in Tasks |->
                                 IF @[t] = "pending" THEN "spent" ELSE @[t]]]]
    /\ UNCHANGED <<ring, alive, nodes, joinTask, stabTask, predTask, counter,
                   rounds, churn>>

NextLife ==
    \/ StartLifecycle(Host)
    \/ StopLifecycle(Host)
    \/ \E t \in Tasks : TimerFires(Host, t)
    \/ StabilizeGotPredecessor(Host) /\ UNCHANGED <<rounds, life>>
    \/ StabilizeNotified(Host) /\ UNCHANGED <<rounds, life>>
    \/ StabilizeGotList(Host) /\ UNCHANGED <<rounds, life>>
    \/ CheckPredecessorSettled(Host) /\ UNCHANGED <<rounds, life>>
    \/ TickStabilizeResolves(Host)
    \/ TickFixFingersResolves(Host)
    \/ TickCheckPredecessorResolves(Host)
    \/ \E n \in ring \ {Host} : Stabilizes(n) /\ UNCHANGED <<rounds, life>>
    \/ \E n \in ring \ {Host} : Kill(n) /\ UNCHANGED <<rounds, life>>

SpecLife == InitLife /\ [][NextLife]_vars

----------------------------------------------------------------------------
(* Lookups while a node fails: rings built by the constructor, every node
   fixes its fingers, one node may fail at any moment. *)

LookupRings == {{10, 40}, {5, 20, 50}, {200, 230}}

InitLookup ==
    \E r \in LookupRings : Constructed(r, [n \in r |-> RingSuccessor(r, n)])

NextLookup ==
    \/ \E n \in ring : FixFingers(n) /\ UNCHANGED <<rounds, life>>
    \/ \E n \in ring : Kill(n) /\ UNCHANGED <<rounds, life>>

SpecLookup == InitLookup /\ [][NextLookup]_vars

----------------------------------------------------------------------------
(* A ring at rest whose nodes keep stabilizing and fixing their fingers. The
   ring is built in place, every node with the node that follows it as
   successor. *)

FingerRings == {{10, 40}}

FingerIds == UNION FingerRings

InitFingers ==
    \E r \in FingerRings : Constructed(r, [n \in r |-> RingSuccessor(r, n)])

NextFingers ==
    \/ \E n \in ring : Stabilizes(n) /\ UNCHANGED <<rounds, life>>
    \/ \E n \in ring : FixFingers(n) /\ UNCHANGED <<rounds, life>>

\* The lifecycle of every node keeps running
FairSpecFingers ==
    /\ InitFingers
    /\ [][NextFingers]_vars
    /\ \A n \in FingerIds :
          /\ WF_vars(n \in ring /\ Stabilizes(n) /\ UNCHANGED <<rounds, life>>)
          /\ WF_vars(n \in ring /\ FixFingers(n) /\ UNCHANGED <<rounds, life>>)

----------------------------------------------------------------------------
(* Lookups in a ring in any state: every node has some node of the ring as
   successor and some node of the ring in its fingers. The first node keeps
   running fixFingers, which mixes its finger table further; one node may
   fail. *)

AnyRings == {{5, 20, 50}}

\* The finger table of node id with nodeId in every entry
FingersAt(id, nodeId) ==
    [i \in 1 .. KEY_BITS |-> [createFingerTable(id)[i] EXCEPT !.nodeId = nodeId]]

InitAny ==
    \E r \in AnyRings : \E succ \in [r -> r] : \E finger \in [r -> r] :
        /\ ring = r
        /\ alive = [n \in r |-> TRUE]
        /\ nodes = [n \in r |->
                       [NewNode(n, succ[n]) EXCEPT !.fingers = FingersAt(n, finger[n])]]
        /\ joinTask = [n \in r |-> NewTask]
        /\ stabTask = [n \in r |-> IdleTask]
        /\ predTask = [n \in r |-> IdleTask]
        /\ counter = [n \in r |-> 0]
        /\ rounds = [n \in r |-> 0]
        /\ life = [n \in r |-> NoLifecycle]
        /\ churn = NoChurn

NextAny ==
    \/ FixFingers(Min(ring)) /\ UNCHANGED <<rounds, life>>
    \/ \E n \in ring : Kill(n) /\ UNCHANGED <<rounds, life>>

SpecAny == InitAny /\ [][NextAny]_vars

----------------------------------------------------------------------------
(* The interval of the ring as the specification defines it: x in (a, b) *)

CyclicWithin(x, a, b) ==
    IF a < b THEN a < x /\ x < b
    ELSE IF a > b THEN x > a \/ x < b
    ELSE x # a

----------------------------------------------------------------------------
(* Claims checked under Spec *)

\* A step in which node n handles the failure of a request of its stabilize round
StabilizeFails(n) ==
    /\ stabTask[n].pc \in {"GetPredecessor", "Notify", "GetSuccessorsList"}
    /\ ~stabTask[n].ok
    /\ stabTask'[n].pc = "idle"

\* C5: when a request of a stabilize round fails, the node removes the failed
\* successor from its successor list and its successor becomes the first entry
\* that remains, or its own id when none remains.
C5_FailoverToFirstRemaining ==
    [][\A n \in ring :
          StabilizeFails(n) =>
              LET failed == nodes[n].successor
                  rest == SpliceOut(nodes[n].successorList, failed)
              IN  /\ nodes'[n].successor = (IF rest = <<>> THEN n ELSE rest[1])
                  /\ failed \notin Range(nodes'[n].successorList)]_vars

\* C7: checkPredecessor sends no request and changes nothing when the predecessor
\* is undefined; for every other predecessor, 0 included, it sends Ping to the
\* predecessor, keeps the predecessor when the Ping succeeds and forgets it when
\* the Ping fails; it never changes successor, successor list or fingers.
C7_CheckPredecessorPings ==
    [][\A n \in ring :
          /\ (alive[n] /\ predTask[n].pc = "idle" /\ nodes[n].predecessor # Nil)
                => ENABLED (CheckPredecessor(n) /\ predTask'[n].pc = "Ping")
          /\ (alive[n] /\ predTask[n].pc = "idle" /\ nodes[n].predecessor = Nil)
                => ~ENABLED (CheckPredecessor(n) /\ predTask'[n].pc = "Ping")
          /\ (predTask[n].pc = "Ping" /\ predTask'[n].pc = "idle")
                => /\ nodes'[n].predecessor =
                          (IF predTask[n].ok THEN nodes[n].predecessor ELSE Nil)
                   /\ nodes'[n].successor = nodes[n].successor
                   /\ nodes'[n].successorList = nodes[n].successorList
                   /\ nodes'[n].fingers = nodes[n].fingers]_vars

\* A step in which the Notify of node n is delivered to its successor
NotifyDelivered(n) ==
    /\ stabTask[n].pc = "GetPredecessor"
    /\ stabTask'[n].pc = "Notify"
    /\ stabTask'[n].ok

\* C9: notify(candidate) sets the predecessor to the candidate exactly when the
\* predecessor is undefined or the candidate lies strictly inside the ring
\* interval (predecessor, id); otherwise the predecessor stays; successor,
\* successor list and fingers stay in both cases.
C9_NotifyAdoptsIffInRingInterval ==
    [][\A n \in ring :
          NotifyDelivered(n) =>
              LET t == nodes'[n].successor
                  before == nodes[t]
                  after == nodes'[t]
                  adopt == \/ before.predecessor = Nil
                           \/ CyclicWithin(n, before.predecessor, t)
              IN  /\ after.predecessor = (IF adopt THEN n ELSE before.predecessor)
                  /\ after.successor = before.successor
                  /\ after.successorList = before.successorList
                  /\ after.fingers = before.fingers]_vars

\* C10: notify(x) applied twice leaves the node as notify(x) applied once does.
C10_NotifyIdempotent ==
    \A n \in ring : \A x \in ring \cup {0, 2 ^ KEY_BITS - 1} :
        LET once == notify(n, nodes[n], x)
        IN  notify(n, once, x) = once

\* Witness of C10: a Notify was delivered and made its sender the predecessor.
C10_Witness ==
    \E n \in ring :
        /\ stabTask[n].pc = "Notify"
        /\ stabTask[n].ok
        /\ nodes[n].successor # n
        /\ nodes[nodes[n].successor].predecessor = n

----------------------------------------------------------------------------
(* Claims checked under SpecRoute *)

\* A further next() of fixFingers on n would leave the finger it refreshes as it is
FingersSettled(n) ==
    \A c \in 0 .. KEY_BITS - 2 :
        nodes[n].fingers[c + 1].nodeId = findSuccessorForKey(n, n + 2 ^ c, MaxHops).id

\* A ring of two or more nodes at rest: successors, predecessors and fingers settled
Converged ==
    /\ Cardinality(LiveRing) >= 2
    /\ SuccessorsConverged
    /\ PredecessorsConverged
    /\ Quiet
    /\ \A n \in LiveRing : FingersSettled(n)

\* C1: in a converged ring findSuccessorForKey(key) on any node returns the node
\* responsible for key, for every key of the identifier space.
C1_LookupReturnsTrueSuccessor ==
    Converged =>
        \A n \in LiveRing : \A key \in IdSpace :
            findSuccessorForKey(n, key, MaxHops).id = TrueSuccessor(LiveRing, key)

\* C2: in the converged ring {5, 60} the lookup of 3 on node 60 returns 5 and the
\* lookup of 62 on node 5 returns 5.
C2_LookupAcrossZero ==
    (ring = {5, 60} /\ Converged) =>
        /\ findSuccessorForKey(60, 3, MaxHops).id = 5
        /\ findSuccessorForKey(5, 62, MaxHops).id = 5

\* The node n is as new Node(comm, n) left it
Fresh(n) == nodes[n] = NewNode(n, n)

\* C8: a node created with only an id has itself as successor and no predecessor,
\* and in that state findSuccessorForKey returns its own id for every key without
\* a request.
C8_SingleNodeLookup ==
    \A n \in ring :
        Fresh(n) =>
            /\ nodes[n].successor = n
            /\ nodes[n].predecessor = Nil
            /\ \A key \in IdSpace :
                  LET r == findSuccessorForKey(n, key, MaxHops)
                  IN  r.id = n /\ r.path = <<n>> /\ ~r.rejected /\ ~r.cut

\* Witness of C8: node 10, created alone, has run findSuccessorForKey (for a
\* finger) and is still as created.
C8_Witness ==
    /\ ring = {10}
    /\ Fresh(10)
    /\ counter[10] > 0
    /\ findSuccessorForKey(10, 33, MaxHops).id = 10

----------------------------------------------------------------------------
(* Claims checked under SpecPair and FairSpecJoin *)

\* C4: node 10 alone, node 40 joins through it; once both have completed two
\* stabilize rounds after the join, each is the successor and the predecessor of
\* the other.
C4_TwoNodeJoin ==
    (/\ ring = {10, 40}
     /\ joinTask[40].pc = "done"
     /\ joinTask[40].ok
     /\ rounds[10] >= 2
     /\ rounds[40] >= 2)
        => /\ nodes[10].successor = 40
           /\ nodes[10].predecessor = 40
           /\ nodes[40].successor = 10
           /\ nodes[40].predecessor = 10

\* The node reached from n after k successor pointers
RECURSIVE Walk(_, _)
Walk(n, k) == IF k = 0 THEN n ELSE Walk(nodes[n].successor, k - 1)

\* Walking successor pointers from any node returns to it in exactly N steps
RingClosed ==
    \A n \in ring :
        /\ Walk(n, Cardinality(ring)) = n
        /\ \A k \in 1 .. Cardinality(ring) - 1 : Walk(n, k) # n

\* C3: nodes that join through a common bootstrap, with no further join or
\* failure and fair lifecycle ticks, eventually reach and keep a state in which
\* every successor is the ring successor and the successor pointers form one cycle.
C3_EventualConvergence == <>[](SuccessorsConverged /\ RingClosed)

----------------------------------------------------------------------------
(* Claims checked under FairSpecFail *)

\* Node 20 of the converged ring {5, 20, 50} has just failed
Lost20 == ring = {5, 20, 50} /\ churn.killed = 20 /\ churn.converged

\* C6: after node 20 of the converged ring {5, 20, 50} fails, node 50 eventually
\* has no predecessor, and eventually has predecessor 5.
C6_PredecessorRecovery ==
    /\ Lost20 ~> (nodes[50].predecessor = Nil)
    /\ Lost20 ~> (nodes[50].predecessor = 5)

----------------------------------------------------------------------------
(* Claims about stabilize and the successor list, checked under Spec *)

NotifySent(n) ==
    /\ stabTask[n].pc = "GetPredecessor"
    /\ stabTask[n].ok
    /\ stabTask'[n].pc = "Notify"
    /\ stabTask'[n].ok

\* C12: in a stabilize round whose requests succeed, the node adopts the
\* predecessor x its successor s reports exactly when x is present and lies
\* strictly inside the ring interval (id, s); Notify goes to the successor as it is
\* after that decision, and no node changes before GetPredecessor has returned.
C12_AdoptThenNotify ==
    [][\A n \in ring :
          /\ NotifySent(n) =>
                LET s == nodes[n].successor
                    x == stabTask[n].id
                    adopt == x # Nil /\ CyclicWithin(x, n, s)
                    to == nodes'[n].successor
                IN  /\ to = (IF adopt THEN x ELSE s)
                    /\ \A m \in ring \ {n} :
                          nodes'[m] = (IF m = to THEN notify(m, nodes[m], n) ELSE nodes[m])
          /\ (stabTask[n].pc = "idle" /\ stabTask'[n].pc = "GetPredecessor")
                => nodes' = nodes]_vars

\* C13: in a ring of two or more nodes no node's successor list holds the node's
\* own id.
C13_NoSelfInSuccessorList ==
    Cardinality(ring) >= 2 =>
        \A n \in ring : n \notin Range(nodes[n].successorList)

\* The forward distance from a to b on the ring of identifiers
ring_distance(a, b) == (b - a + 2 ^ KEY_BITS) % (2 ^ KEY_BITS)

\* C14: the entries of every successor list are strictly increasing in forward
\* ring distance from the node that keeps the list.
C14_SuccessorListOrdered ==
    \A n \in ring :
        LET list == nodes[n].successorList
        IN  \A i, j \in 1 .. Len(list) :
                i < j => ring_distance(n, list[i]) < ring_distance(n, list[j])

----------------------------------------------------------------------------
(* Claims checked under SpecList *)

\* C15: every successor list has at most MAX_SUCCESSORS_LIST_LENGTH entries and
\* holds no id twice.
C15_SuccessorListCappedNoDuplicates ==
    \A n \in ring :
        LET list == nodes[n].successorList
        IN  /\ Len(list) <= MAX_SUCCESSORS_LIST_LENGTH
            /\ \A i, j \in 1 .. Len(list) : i # j => list[i] # list[j]

\* Witness of C15: a full list from which the slice has cut the successor that
\* was assigned last.
C15_Witness ==
    \E n \in ring :
        /\ Len(nodes[n].successorList) = MAX_SUCCESSORS_LIST_LENGTH
        /\ nodes[n].successor \notin Range(nodes[n].successorList)

\* C20: for a node a, its successor b # a and every other id x, exactly one of
\* withinInterval(x, (a, b]) and withinInterval(x, (b, a]) is true.
C20_RingComplement ==
    \A a \in ring : \A x \in ListIds :
        LET b == nodes[a].successor
        IN  (a # b /\ x \notin {a, b})
                => (withinInterval(x, a, b, FALSE, TRUE)
                        # withinInterval(x, b, a, FALSE, TRUE))

----------------------------------------------------------------------------
\* The chains of task t of node n: the ticks that await their invocation and
\* the timeouts that are pending
Chains(n, t) == life[n].runs[t] + life[n].timers[t]

\* C16: startLifecycle is idempotent. Once lifecycleActive is set, a further
\* call of startLifecycle changes no state and starts no further chain of
\* stabilize, fixFingers or checkPredecessor ticks, so that a node never has
\* more than one chain of any of the three tasks.
C16_StartLifecycleIdempotent ==
    \A n \in ring :
        /\ (alive[n] /\ life[n].active)
               => /\ ENABLED StartLifecycle(n)
                  /\ ~ENABLED (StartLifecycle(n) /\ vars' # vars)
        /\ \A t \in Tasks : Chains(n, t) <= 1

\* The lifecycle runs, with a stabilize tick awaiting a reply, a fixFingers tick
\* scheduled and startLifecycle callable once more
C16_Witness ==
    \E n \in ring :
        /\ alive[n] /\ life[n].active /\ ~life[n].stopped
        /\ life[n].runs["stab"] = 1 /\ stabTask[n].pc = "Notify"
        /\ life[n].timers["fing"] = 1
        /\ ENABLED StartLifecycle(n)

\* C17: after stopLifecycle no timeout of the node is pending or becomes
\* pending (and so no tick is started any more), whatever invocation was in
\* flight when it was called.
C17_StopReleasesTimers ==
    \A n \in ring :
        life[n].stopped => \A t \in Tasks : life[n].timers[t] = 0

\* C18: at most one invocation of each task of a node is in progress, and the
\* timeout of the next run is pending only when no invocation is: the next run
\* is scheduled after the previous one has resolved.
C18_NoOverlappingRuns ==
    \A n \in ring : \A t \in Tasks :
        /\ life[n].runs[t] <= 1
        /\ life[n].timers[t] >= 1 => life[n].runs[t] = 0

\* fixFingers has completed a run and its next run is in progress, while a
\* stabilize run awaits a reply
C18_Witness ==
    \E n \in ring :
        /\ alive[n]
        /\ counter[n] >= 1 /\ life[n].runs["fing"] = 1
        /\ life[n].runs["stab"] = 1 /\ stabTask[n].pc = "GetPredecessor"

\* The invocation that the tick of task t of node n awaits can take a step, or
\* has settled and the tick can go on (for fixFingers: its lookup returns)
TickCanProceed(n, t) ==
    CASE t = "stab" -> \/ ENABLED StabilizeGotPredecessor(n)
                       \/ ENABLED StabilizeNotified(n)
                       \/ ENABLED StabilizeGotList(n)
                       \/ ENABLED TickStabilizeResolves(n)
      [] t = "fing" -> ~findSuccessorForKey(n, n + 2 ^ counter[n], MaxHops).cut
      [] t = "pred" -> \/ ENABLED CheckPredecessorSettled(n)
                       \/ ENABLED TickCheckPredecessorResolves(n)

\* C19: a failed request never escapes a tick. While the lifecycle runs (it was
\* started and not stopped), each task of a live node has its chain: a tick
\* that awaits an invocation which can go on to its end, failed requests
\* included, or the timeout of the next tick; no invocation ends by throwing.
C19_FailureNeverEscapesTick ==
    \A n \in ring :
        /\ stabTask[n].pc # "thrown"
        /\ (alive[n] /\ life[n].active /\ ~life[n].stopped)
               => \A t \in Tasks :
                      /\ Chains(n, t) >= 1
                      /\ life[n].runs[t] >= 1 => TickCanProceed(n, t)

\* The peer has failed, the stabilize tick of the host has met the failure
\* (the host fell back to itself as successor) and stabilize is scheduled again
C19_Witness ==
    \E n \in ring :
        /\ alive[n] /\ life[n].active /\ ~life[n].stopped
        /\ churn.killed \notin {Nil, n}
        /\ nodes[n].successor = n
        /\ life[n].timers["stab"] = 1

----------------------------------------------------------------------------
\* The keys looked up on node n: the start of each finger, the node's id and
\* the ids next to it
LookupKeys(n) ==
    {generateFingerId(n, i) : i \in 0 .. KEY_BITS - 1}
        \cup {n, (n + 2 ^ KEY_BITS - 1) % (2 ^ KEY_BITS), 0}

\* The lookup of key on node n forwards a request to another node
Forwards(n, key) ==
    /\ ~withinInterval(key, n, nodes[n].successor, FALSE, TRUE)
    /\ getClosestPrecedingNode(n, nodes[n], key) # n

\* The lookup of key on node n forwards a request, and the transport rejects it
ForwardRejected(n, key) ==
    /\ Forwards(n, key)
    /\ ~Reachable(getClosestPrecedingNode(n, nodes[n], key))

\* C21: findSuccessorForKey never fails. When the key is not in (id, successor]
\* and the closest preceding finger is another node, the request is forwarded
\* to it; when the transport rejects that request the lookup answers the
\* node's own id, and every lookup that returns answers an id. A fixFingers
\* run whose lookup was rejected leaves successor, predecessor, successorList
\* and every finger but the one it writes as they were.
C21_LookupNeverFails ==
    /\ [](\A n \in LiveRing : \A key \in LookupKeys(n) :
            LET r == findSuccessorForKey(n, key, MaxHops)
            IN  /\ r.cut \/ r.id \in IdSpace
                /\ (Forwards(n, key) /\ ~ForwardRejected(n, key))
                       => /\ Len(r.path) >= 2
                          /\ r.path[2] = getClosestPrecedingNode(n, nodes[n], key)
                /\ ForwardRejected(n, key)
                       => /\ r.id = n
                          /\ r.path = <<n>>
                          /\ r.rejected /\ ~r.cut)
    /\ [][\A n \in LiveRing :
            (counter'[n] # counter[n] /\ ForwardRejected(n, n + 2 ^ counter[n]))
                => nodes'[n] =
                       [nodes[n] EXCEPT !.fingers[counter[n] + 1].nodeId = n]]_vars

\* A node has failed; on another node the lookup of the sixth finger forwards to
\* the failed node, is rejected and answers the node itself, and fixFingers has
\* written that answer
C21_Witness ==
    \E n \in LiveRing :
        /\ churn.killed # Nil
        /\ counter[n] = 6
        /\ ForwardRejected(n, n + 2 ^ 5)
        /\ findSuccessorForKey(n, n + 2 ^ 5, MaxHops).id = n
        /\ nodes[n].fingers[1].nodeId = churn.killed
        /\ nodes[n].fingers[6].nodeId = n

----------------------------------------------------------------------------
\* C22: in every state, from construction onward, the dead flag of a node is
\* true if and only if its successor is the node itself and it has no
\* predecessor.
C22_DeadIffIsolated ==
    \A n \in ring :
        nodes[n].dead <=> (nodes[n].successor = n /\ nodes[n].predecessor = Nil)

----------------------------------------------------------------------------
\* The key of every finger is the start of its interval
FingerKeysShaped ==
    \A n \in ring : \A i \in 0 .. KEY_BITS - 1 :
        nodes[n].fingers[i + 1].key = (n + 2 ^ i) % (2 ^ KEY_BITS)

\* The finger of index i of node n holds what the lookup of its key answers
FingerFixed(n, i) ==
    nodes[n].fingers[i + 1].nodeId =
        findSuccessorForKey(n, nodes[n].fingers[i + 1].key, MaxHops).id

\* C23: the key of finger i is (id + 2^i) mod 2^KEY_BITS in every state, and
\* when the ring is at rest while fixFingers keeps running, from some moment on
\* every finger, the last one included, holds the answer of the lookup of its
\* key.
C23_FingerShape ==
    /\ []FingerKeysShaped
    /\ <>[]((SuccessorsConverged /\ PredecessorsConverged)
              => \A n \in LiveRing : \A i \in 0 .. KEY_BITS - 1 : FingerFixed(n, i))

----------------------------------------------------------------------------
\* C24: a fixFingers run of node n with counter c looks up the key
\* (n + 2^c) mod 2^KEY_BITS, a value of the identifier space, writes the answer
\* to fingers[c].nodeId and nothing else of the node, and advances the counter
\* to (c + 1) mod (KEY_BITS - 1); so the counter stays below KEY_BITS - 1 and the
\* last finger is never written.
C24_FixFingersStep ==
    [][\A n \in ring :
          counter'[n] # counter[n]
              => LET c == counter[n]
                     key == (n + 2 ^ c) % (2 ^ KEY_BITS)
                 IN  /\ nodes'[n] = [nodes[n] EXCEPT !.fingers[c + 1].nodeId =
                                        findSuccessorForKey(n, key, MaxHops).id]
                     /\ counter'[n] = (c + 1) % (KEY_BITS - 1)
                     /\ counter'[n] \in 0 .. KEY_BITS - 2]_vars

----------------------------------------------------------------------------
\* The keys looked up under SpecAny: the ids of the ring, the ids next to them
\* and the ends of the identifier space
AnyKeys == {0, 4, 5, 6, 19, 20, 21, 49, 50, 51, 60, 2 ^ KEY_BITS - 1}

\* C25: a lookup terminates, whatever the successors and the fingers of the
\* nodes hold. Each request goes to a node whose id lies strictly between the
\* id of the node that forwards and the key, so no node runs the lookup twice
\* and the nodes that run it are no more than the nodes of the ring.
C25_LookupTerminates ==
    \A n \in LiveRing : \A key \in AnyKeys :
        LET r == findSuccessorForKey(n, key, MaxHops)
        IN  /\ ~r.cut
            /\ Len(r.path) <= Cardinality(ring)
            /\ \A i, j \in 1 .. Len(r.path) : i # j => r.path[i] # r.path[j]
            /\ \A i \in 1 .. Len(r.path) - 1 :
                   CyclicWithin(r.path[i + 1], r.path[i], key)

\* A lookup that every node of the ring has run in turn
C25_Witness ==
    \E n \in LiveRing : \E key \in AnyKeys :
        /\ LiveRing = ring
        /\ counter[Min(ring)] > 0
        /\ Len(findSuccessorForKey(n, key, MaxHops).path) = Cardinality(ring)

----------------------------------------------------------------------------
\* C26: once the successor of a node has been assigned (every node starts as
\* its own successor) and is another node, it is the first entry of the node's
\* successorList: it is never cut out of the list, and no entry of the list is
\* closer to the node.
C26_SuccessorHeadsList ==
    \A n \in ring :
        nodes[n].successor # n
            => /\ nodes[n].successorList # <<>>
               /\ nodes[n].successorList[1] = nodes[n].successor
               /\ \A i \in 1 .. Len(nodes[n].successorList) :
                      ring_distance(n, nodes[n].successor)
                          <= ring_distance(n, nodes[n].successorList[i])

====
